---- MODULE Spec2Model ----
(***************************************************************************)
(* EMI VoiceBot (src/ap3.py, with src/ap2.py and src/ap.py as earlier      *)
(* iterations of the same script): the loan registry (customers, loans,    *)
(* call_logs tables) and the notification handlers place_call,             *)
(* send_payment_link, mark_paid, reschedule_loan, the two bulk loops, the  *)
(* create form and seed_demo.                                              *)
(***************************************************************************)
EXTENDS Integers, Sequences, FiniteSets, TLC

VARIABLES
    customers,   \* table customers: row id = index; [name, phone, language]
    loans,       \* table loans: row id = index; [customer_id, emi_amount, due_date, status]
    call_logs,   \* table call_logs: row id = index; [loan_id, event, detail, ts]
    env,         \* what the process was started with: the Twilio variables
                 \* of the environment and whether the twilio package imports
    USE_TWILIO,  \* module-level flag computed once at import
    tw_calls,    \* requests made to the live Twilio client, in order
    today,       \* date.today(), as a proleptic Gregorian ordinal
    ret,         \* what the last handler returned (or that it raised)
    pc           \* per browser session: the handler it is inside, if any

vars == <<customers, loans, call_logs, env, USE_TWILIO, tw_calls, today, ret,
          pc>>

-----------------------------------------------------------------------------
(* Bounds of the model.                                                    *)

MaxLoans == 2        \* rows of the loans table
MaxLog == 2          \* rows of the call_logs table
MaxTw == 2           \* requests to the live channel
MaxTicks == 1        \* days the clock advances
MaxHorizon == 14     \* latest due date, in days after the first day
SeedCustomers == 1   \* how many entries of customers_to_seed are inserted
BatchMaxLog == 4     \* rows of call_logs where whole batches are followed
BatchMaxTw == 2      \* requests to the live channel there
MaxSessions == 2     \* browser sessions whose handlers run at the same time

-----------------------------------------------------------------------------
(* Calendar: datetime.date as the standard library computes it.  A date    *)
(* object is its ordinal; the ISO text "YYYY-MM-DD" stored in the due_date *)
(* column is the triple <<y, m, d>> of its zero-padded fields.             *)

IsLeap(y) == (y % 4 = 0) /\ ((y % 100 # 0) \/ (y % 400 = 0))

DaysInMonth(y, m) ==
    IF m = 2 THEN (IF IsLeap(y) THEN 29 ELSE 28)
    ELSE IF m \in {4, 6, 9, 11} THEN 30 ELSE 31

RECURSIVE DaysBeforeMonth(_, _)
DaysBeforeMonth(y, m) ==
    IF m = 1 THEN 0 ELSE DaysBeforeMonth(y, m - 1) + DaysInMonth(y, m - 1)

DaysBeforeYear(y) ==
    LET p == y - 1 IN p * 365 + (p \div 4) - (p \div 100) + (p \div 400)

\* datetime.fromisoformat(text).date(): the date object of an ISO text
fromisoformat(iso) ==
    DaysBeforeYear(iso[1]) + DaysBeforeMonth(iso[1], iso[2]) + iso[3]

\* date.isoformat(): the ISO text of a date object (datetime._ord2ymd)
isoformat(ord) ==
    LET n0   == ord - 1
        n400 == n0 \div 146097
        r400 == n0 % 146097
        n100 == r400 \div 36524
        r100 == r400 % 36524
        n4   == r100 \div 1461
        r4   == r100 % 1461
        n1   == r4 \div 365
        n    == r4 % 365
        year == n400 * 400 + 1 + n100 * 100 + n4 * 4 + n1
        leap == (n1 = 3) /\ ((n4 # 24) \/ (n100 = 3))
        dim(m) == IF m = 2 THEN (IF leap THEN 29 ELSE 28)
                  ELSE IF m \in {4, 6, 9, 11} THEN 30 ELSE 31
        dbm(m) == LET F[k \in 1..12] == IF k = 1 THEN 0 ELSE F[k - 1] + dim(k - 1)
                  IN F[m]
        guess  == (n + 50) \div 32
        month  == IF dbm(guess) > n THEN guess - 1 ELSE guess
    IN  IF n1 = 4 \/ n100 = 4
        THEN <<year - 1, 12, 31>>
        ELSE <<year, month, n - dbm(month) + 1>>

\* a + timedelta(days=k) on date objects
PlusDays(ord, k) == ord + k

\* a variant that compares with "<"
IsoLeq_Strict(a, b) ==
    \/ a[1] < b[1]
    \/ a[1] = b[1] /\ a[2] < b[2]
    \/ a[1] = b[1] /\ a[2] = b[2] /\ a[3] < b[3]

\* SQL "a <= b" on TEXT columns holding ISO dates: the zero-padded fields
\* compare as the strings do, field by field from the left
IsoLeq(a, b) ==
    \/ a[1] < b[1]
    \/ a[1] = b[1] /\ a[2] < b[2]
    \/ a[1] = b[1] /\ a[2] = b[2] /\ a[3] <= b[3]

\* strftime('%B %d, %Y') of the stored due date: month, day, year
FormatDueDate(iso) == <<"%B %d, %Y", iso[2], iso[3], iso[1]>>

\* the first day of the model: 2025-01-01
Today0 == fromisoformat(<<2025, 1, 1>>)

-----------------------------------------------------------------------------
(* Message templates.                                                      *)

\* the languages LANG_MSGS has a table for
Languages ==
    {"en", "hi", "bn", "ta", "te", "mr", "gu", "kn", "ml", "pa", "or", "ur",
     "es", "fr", "de", "pt", "ru", "zh", "ja", "ar", "id", "it", "tr", "ko",
     "nl", "pl", "vi", "fil"}

TemplateKeys == {"reminder", "pre_due_reminder", "link_sent", "rescheduled"}

\* the placeholders of each template: the same in every language
Placeholders(key) ==
    IF key = "reminder" THEN {"name", "amount"}
    ELSE IF key = "pre_due_reminder" THEN {"name", "amount", "due_date"}
    ELSE {}

\* LANG_MSGS: language -> key -> format string (named by language and key)
LANG_MSGS ==
    [lang \in Languages |->
        [key \in TemplateKeys |-> [lang |-> lang, key |-> key]]]

\* a variant that falls back to the Hindi table
TableFor_Hindi(lang) ==
    IF lang \in DOMAIN LANG_MSGS THEN LANG_MSGS[lang] ELSE LANG_MSGS["hi"]

\* LANG_MSGS.get(lang, LANG_MSGS["en"])
TableFor(lang) ==
    IF lang \in DOMAIN LANG_MSGS THEN LANG_MSGS[lang] ELSE LANG_MSGS["en"]

\* get_msg raises KeyError when the table found has no such key
GetMsgRaises(lang, key) == key \notin DOMAIN TableFor(lang)

\* get_msg: the format string with its placeholders substituted; str.format
\* ignores the keyword arguments the string does not name
get_msg(lang, key, name, amount, due_date) ==
    LET tpl == TableFor(lang)[key]
        ph  == Placeholders(tpl.key)
    IN  <<"text", tpl.lang, tpl.key,
          IF "name" \in ph THEN name ELSE "",
          IF "amount" \in ph THEN amount ELSE 0,
          IF "due_date" \in ph THEN due_date ELSE <<>>>>

-----------------------------------------------------------------------------
(* Store helpers.                                                          *)

LoanIds == 1..MaxLoans

\* hours in a day
HoursPerDay == 24

\* CURRENT_TIMESTAMP on a day, in hours since the first day; the clock of
\* the model moves a day at a time
Timestamp(day) == (day - Today0) * HoursPerDay

\* a row of call_logs (id is its index, AUTOINCREMENT; ts DEFAULT
\* CURRENT_TIMESTAMP)
Event(loan_id, event, detail) ==
    [loan_id |-> loan_id, event |-> event, detail |-> detail,
     ts |-> Timestamp(today)]

\* SELECT ... FROM loans WHERE id = ?: the row exists
LoanExists(loan_id) == loan_id \in 1..Len(loans)

\* SELECT ... FROM loans l JOIN customers c ON l.customer_id = c.id
\* WHERE l.id = ?: a row comes back
LoanFound(loan_id) ==
    /\ loan_id \in 1..Len(loans)
    /\ loans[loan_id].customer_id \in 1..Len(customers)

\* the joined row place_call and send_payment_link read
LoanView(loan_id) ==
    LET l == loans[loan_id]
        c == customers[l.customer_id]
    IN  [id |-> loan_id, emi_amount |-> l.emi_amount, due_date |-> l.due_date,
         name |-> c.name, phone |-> c.phone, language |-> c.language]

\* the browser sessions: each runs the page script in a thread of its own
Sessions == 1..MaxSessions

\* pc of a session that is inside no handler
Idle == [op |-> "idle", next |-> "", loan_id |-> 0, days_to_add |-> 0,
         new_due_date |-> <<>>, loans0 |-> <<>>, log0 |-> 0]

\* no session is inside a handler: the page takes one click at a time and
\* every handler runs from its first to its last statement
AllIdle == \A s \in Sessions : pc[s] = Idle

NotFound == <<"error", "Loan not found">>
Raised(what) == <<"raise", what>>
Status(what) == <<"status", what>>
Nothing == <<"none", "">>

-----------------------------------------------------------------------------
(* The handlers.  place_call and send_payment_link are written as          *)
(* functions of the two tables they write, so that the bulk loops can      *)
(* apply place_call to one loan after the other.  `accepted` says whether  *)
(* the live channel takes the request or raises.  The variable ret holds   *)
(* <<function, kind, value>> for the function that was called last: what   *)
(* it returned, or that it raised.                                         *)

\* a variant that extends from the current day, not from the due date
NewDueDate_FromToday(due_date, days_to_add) ==
    isoformat(PlusDays(today, days_to_add))

\* the new due date reschedule_loan computes
NewDueDate(due_date, days_to_add) ==
    isoformat(PlusDays(fromisoformat(due_date), days_to_add))

\* a variant that writes the call_initiated row before it renders the text
PlaceCallFound_LogsBeforeText(logs, tw, loan_id, message_key, accepted) ==
    LET loan_info == LoanView(loan_id)
        formatted_due_date == FormatDueDate(loan_info.due_date)
        logs1 == Append(logs, Event(loan_id, "call_initiated",
                                    <<"to", loan_info.phone>>))
    IN  IF GetMsgRaises(loan_info.language, message_key)
        THEN [logs |-> logs1, tw |-> tw, ret |-> Raised("KeyError")]
        ELSE
        LET text == get_msg(loan_info.language, message_key, loan_info.name,
                            loan_info.emi_amount, formatted_due_date)
        IN  IF USE_TWILIO
            THEN LET tw1 == Append(tw, [api |-> "calls.create",
                                        to |-> loan_info.phone,
                                        at |-> Len(logs1)])
                 IN  IF accepted
                     THEN [logs |-> Append(logs1, Event(loan_id, "twilio_call",
                                                        <<"sid", Len(tw1)>>)),
                           tw |-> tw1, ret |-> Status("twilio_call_placed")]
                     ELSE [logs |-> logs1, tw |-> tw1,
                           ret |-> Raised("TwilioException")]
            ELSE [logs |-> Append(logs1, Event(loan_id, "mock_call", text)),
                  tw |-> tw, ret |-> Status("mock_call_logged")]

\* a variant that takes the call_initiated row back when the channel raises
PlaceCallFound_RollsBack(logs, tw, loan_id, message_key, accepted) ==
    LET loan_info == LoanView(loan_id)
        formatted_due_date == FormatDueDate(loan_info.due_date)
    IN  IF GetMsgRaises(loan_info.language, message_key)
        THEN [logs |-> logs, tw |-> tw, ret |-> Raised("KeyError")]
        ELSE
        LET text == get_msg(loan_info.language, message_key, loan_info.name,
                            loan_info.emi_amount, formatted_due_date)
            logs1 == Append(logs, Event(loan_id, "call_initiated",
                                        <<"to", loan_info.phone>>))
        IN  IF USE_TWILIO
            THEN LET tw1 == Append(tw, [api |-> "calls.create",
                                        to |-> loan_info.phone,
                                        at |-> Len(logs1)])
                 IN  IF accepted
                     THEN [logs |-> Append(logs1, Event(loan_id, "twilio_call",
                                                        <<"sid", Len(tw1)>>)),
                           tw |-> tw1, ret |-> Status("twilio_call_placed")]
                     ELSE [logs |-> logs, tw |-> tw1,
                           ret |-> Raised("TwilioException")]
            ELSE [logs |-> Append(logs1, Event(loan_id, "mock_call", text)),
                  tw |-> tw, ret |-> Status("mock_call_logged")]

\* place_call from the point where the joined row was found
PlaceCallFound(logs, tw, loan_id, message_key, accepted) ==
    LET loan_info == LoanView(loan_id)
        formatted_due_date == FormatDueDate(loan_info.due_date)
    IN  IF GetMsgRaises(loan_info.language, message_key)
        THEN [logs |-> logs, tw |-> tw, ret |-> Raised("KeyError")]
        ELSE
        LET text == get_msg(loan_info.language, message_key, loan_info.name,
                            loan_info.emi_amount, formatted_due_date)
            logs1 == Append(logs, Event(loan_id, "call_initiated",
                                        <<"to", loan_info.phone>>))
        IN  IF USE_TWILIO
            THEN LET tw1 == Append(tw, [api |-> "calls.create",
                                        to |-> loan_info.phone,
                                        at |-> Len(logs1)])
                 IN  IF accepted
                     THEN [logs |-> Append(logs1, Event(loan_id, "twilio_call",
                                                        <<"sid", Len(tw1)>>)),
                           tw |-> tw1, ret |-> Status("twilio_call_placed")]
                     ELSE [logs |-> logs1, tw |-> tw1,
                           ret |-> Raised("TwilioException")]
            ELSE [logs |-> Append(logs1, Event(loan_id, "mock_call", text)),
                  tw |-> tw, ret |-> Status("mock_call_logged")]

\* a variant that logs the attempt before it looks the loan up
PlaceCall_LogsFirst(logs, tw, loan_id, message_key, accepted) ==
    IF ~LoanFound(loan_id)
    THEN [logs |-> Append(logs, Event(loan_id, "call_initiated", <<"to", "">>)),
          tw |-> tw, ret |-> NotFound]
    ELSE PlaceCallFound(logs, tw, loan_id, message_key, accepted)

\* place_call(loan_id, message_key): the tables and the return value
PlaceCall(logs, tw, loan_id, message_key, accepted) ==
    IF ~LoanFound(loan_id)
    THEN [logs |-> logs, tw |-> tw, ret |-> NotFound]
    ELSE PlaceCallFound(logs, tw, loan_id, message_key, accepted)

\* send_payment_link(loan_id): the tables and the return value
SendPaymentLink(logs, tw, loan_id, accepted) ==
    IF ~LoanFound(loan_id)
    THEN [logs |-> logs, tw |-> tw, ret |-> NotFound]
    ELSE
    LET loan_info == LoanView(loan_id)
        payment_link == <<"https://example.com/pay", loan_id, loan_info.emi_amount>>
    IN  IF USE_TWILIO
        THEN LET tw1 == Append(tw, [api |-> "messages.create",
                                    to |-> loan_info.phone,
                                    at |-> Len(logs)])
             IN  IF accepted
                 THEN [logs |-> Append(logs, Event(loan_id, "payment_link_sent",
                                                   <<"tw_sms", Len(tw1)>>)),
                       tw |-> tw1, ret |-> Status("payment_link_sent")]
                 ELSE [logs |-> logs, tw |-> tw1,
                       ret |-> Raised("TwilioException")]
        ELSE [logs |-> Append(logs, Event(loan_id, "payment_link_sent",
                                 <<"mock_sms_sent_to", loan_info.phone, payment_link>>)),
              tw |-> tw, ret |-> Status("payment_link_sent")]

\* the rows a handler may still add within given bounds
FitsIn(r, maxLog, maxTw) == Len(r.logs) <= maxLog /\ Len(r.tw) <= maxTw

\* the rows a handler may still add within the bounds of the model
Fits(r) == FitsIn(r, MaxLog, MaxTw)

\* what a handler leaves in ret
Returned(handler, r) == <<handler, r[1], r[2]>>

\* the channel's answer is an input only where the live channel is asked
ChannelAsked(loan_id, accepted) == accepted \/ (USE_TWILIO /\ LoanFound(loan_id))

\* a variant that also writes the loan it called
place_call_MarksLoan(loan_id, message_key, accepted) ==
    LET r == PlaceCall(call_logs, tw_calls, loan_id, message_key, accepted)
    IN  /\ ChannelAsked(loan_id, accepted)
        /\ Fits(r)
        /\ call_logs' = r.logs
        /\ tw_calls' = r.tw
        /\ ret' = Returned("place_call", r.ret)
        /\ loans' = IF LoanFound(loan_id)
                    THEN [loans EXCEPT ![loan_id].status = "called"]
                    ELSE loans
        /\ UNCHANGED <<customers, env, USE_TWILIO, today, pc>>

place_call(loan_id, message_key, accepted) ==
    LET r == PlaceCall(call_logs, tw_calls, loan_id, message_key, accepted)
    IN  /\ ChannelAsked(loan_id, accepted)
        /\ Fits(r)
        /\ call_logs' = r.logs
        /\ tw_calls' = r.tw
        /\ ret' = Returned("place_call", r.ret)
        /\ UNCHANGED <<customers, loans, env, USE_TWILIO, today, pc>>

send_payment_link(loan_id, accepted) ==
    LET r == SendPaymentLink(call_logs, tw_calls, loan_id, accepted)
    IN  /\ ChannelAsked(loan_id, accepted)
        /\ Fits(r)
        /\ call_logs' = r.logs
        /\ tw_calls' = r.tw
        /\ ret' = Returned("send_payment_link", r.ret)
        /\ UNCHANGED <<customers, loans, env, USE_TWILIO, today, pc>>

\* a variant that logs the payment only the first time
mark_paid_LogsOnce(loan_id) ==
    /\ Len(call_logs) < MaxLog
    /\ loans' = IF LoanExists(loan_id)
                THEN [loans EXCEPT ![loan_id].status = "paid"]
                ELSE loans
    /\ call_logs' = IF LoanExists(loan_id) /\ loans[loan_id].status = "paid"
                    THEN call_logs
                    ELSE Append(call_logs,
                                Event(loan_id, "marked_paid", <<"Webhook/Manual">>))
    /\ ret' = Returned("mark_paid", Status("ok"))
    /\ UNCHANGED <<customers, env, USE_TWILIO, tw_calls, today, pc>>

\* UPDATE loans SET status = 'paid' WHERE id = ?: no row when the id is absent
mark_paid(loan_id) ==
    /\ Len(call_logs) < MaxLog
    /\ loans' = IF LoanExists(loan_id)
                THEN [loans EXCEPT ![loan_id].status = "paid"]
                ELSE loans
    /\ call_logs' = Append(call_logs,
                           Event(loan_id, "marked_paid", <<"Webhook/Manual">>))
    /\ ret' = Returned("mark_paid", Status("ok"))
    /\ UNCHANGED <<customers, env, USE_TWILIO, tw_calls, today, pc>>

\* a variant that keeps one rescheduled row per loan and updates it
reschedule_loan_UpdatesRow(loan_id, days_to_add) ==
    IF ~LoanExists(loan_id)
    THEN /\ ret' = Returned("reschedule_loan", NotFound)
         /\ UNCHANGED <<customers, loans, call_logs, env, USE_TWILIO, tw_calls, today, pc>>
    ELSE LET new_due_date == NewDueDate(loans[loan_id].due_date, days_to_add)
             row == Event(loan_id, "rescheduled", <<"New due date", new_due_date>>)
             old == {i \in 1..Len(call_logs) :
                        /\ call_logs[i].event = "rescheduled"
                        /\ call_logs[i].loan_id = loan_id}
         IN  /\ Len(call_logs) < MaxLog
             /\ fromisoformat(new_due_date) <= Today0 + MaxHorizon
             /\ loans' = [loans EXCEPT ![loan_id].status = "rescheduled",
                                       ![loan_id].due_date = new_due_date]
             /\ call_logs' = IF old = {}
                             THEN Append(call_logs, row)
                             ELSE [i \in 1..Len(call_logs) |->
                                     IF i \in old THEN row ELSE call_logs[i]]
             /\ ret' = Returned("reschedule_loan", Status("rescheduled"))
             /\ UNCHANGED <<customers, env, USE_TWILIO, tw_calls, today, pc>>

\* a variant that leaves the loan due on its new date
reschedule_loan_Reopens(loan_id, days_to_add) ==
    IF ~LoanExists(loan_id)
    THEN /\ ret' = Returned("reschedule_loan", NotFound)
         /\ UNCHANGED <<customers, loans, call_logs, env, USE_TWILIO, tw_calls, today, pc>>
    ELSE LET new_due_date == NewDueDate(loans[loan_id].due_date, days_to_add)
         IN  /\ Len(call_logs) < MaxLog
             /\ fromisoformat(new_due_date) <= Today0 + MaxHorizon
             /\ loans' = [loans EXCEPT ![loan_id].status = "due",
                                       ![loan_id].due_date = new_due_date]
             /\ call_logs' = Append(call_logs,
                    Event(loan_id, "rescheduled", <<"New due date", new_due_date>>))
             /\ ret' = Returned("reschedule_loan", Status("rescheduled"))
             /\ UNCHANGED <<customers, env, USE_TWILIO, tw_calls, today, pc>>

\* a variant that moves the due date and leaves the status as it was
reschedule_loan_DateOnly(loan_id, days_to_add) ==
    IF ~LoanExists(loan_id)
    THEN /\ ret' = Returned("reschedule_loan", NotFound)
         /\ UNCHANGED <<customers, loans, call_logs, env, USE_TWILIO, tw_calls, today, pc>>
    ELSE LET new_due_date == NewDueDate(loans[loan_id].due_date, days_to_add)
         IN  /\ Len(call_logs) < MaxLog
             /\ fromisoformat(new_due_date) <= Today0 + MaxHorizon
             /\ loans' = [loans EXCEPT ![loan_id].due_date = new_due_date]
             /\ call_logs' = Append(call_logs,
                    Event(loan_id, "rescheduled", <<"New due date", new_due_date>>))
             /\ ret' = Returned("reschedule_loan", Status("rescheduled"))
             /\ UNCHANGED <<customers, env, USE_TWILIO, tw_calls, today, pc>>

\* a variant that, like mark_paid, does not look the loan up first
reschedule_loan_Unchecked(loan_id, days_to_add) ==
    IF ~LoanExists(loan_id)
    THEN /\ Len(call_logs) < MaxLog
         /\ call_logs' = Append(call_logs,
                Event(loan_id, "rescheduled", <<"New due date", <<>>>>))
         /\ ret' = Returned("reschedule_loan", Status("rescheduled"))
         /\ UNCHANGED <<customers, loans, env, USE_TWILIO, tw_calls, today, pc>>
    ELSE LET new_due_date == NewDueDate(loans[loan_id].due_date, days_to_add)
         IN  /\ Len(call_logs) < MaxLog
             /\ fromisoformat(new_due_date) <= Today0 + MaxHorizon
             /\ loans' = [loans EXCEPT ![loan_id].status = "rescheduled",
                                       ![loan_id].due_date = new_due_date]
             /\ call_logs' = Append(call_logs,
                    Event(loan_id, "rescheduled", <<"New due date", new_due_date>>))
             /\ ret' = Returned("reschedule_loan", Status("rescheduled"))
             /\ UNCHANGED <<customers, env, USE_TWILIO, tw_calls, today, pc>>

reschedule_loan(loan_id, days_to_add) ==
    IF ~LoanExists(loan_id)
    THEN /\ ret' = Returned("reschedule_loan", NotFound)
         /\ UNCHANGED <<customers, loans, call_logs, env, USE_TWILIO, tw_calls, today, pc>>
    ELSE LET new_due_date == NewDueDate(loans[loan_id].due_date, days_to_add)
         IN  /\ Len(call_logs) < MaxLog
             /\ fromisoformat(new_due_date) <= Today0 + MaxHorizon
             /\ loans' = [loans EXCEPT ![loan_id].status = "rescheduled",
                                       ![loan_id].due_date = new_due_date]
             /\ call_logs' = Append(call_logs,
                    Event(loan_id, "rescheduled", <<"New due date", new_due_date>>))
             /\ ret' = Returned("reschedule_loan", Status("rescheduled"))
             /\ UNCHANGED <<customers, env, USE_TWILIO, tw_calls, today, pc>>

-----------------------------------------------------------------------------
(* The bulk loops of the page.                                             *)

\* a variant that returns the matching ids latest first
RECURSIVE SelectIds_Descending(_, _)
SelectIds_Descending(matching, n) ==
    IF n = 0 THEN <<>>
    ELSE IF n \in matching THEN <<n>> \o SelectIds_Descending(matching, n - 1)
         ELSE SelectIds_Descending(matching, n - 1)

\* SELECT id FROM loans WHERE <cond>: the matching ids among the first n
\* rows, in rowid order
RECURSIVE SelectIds(_, _)
SelectIds(matching, n) ==
    IF n = 0 THEN <<>>
    ELSE IF n \in matching THEN Append(SelectIds(matching, n - 1), n)
         ELSE SelectIds(matching, n - 1)

\* a variant that selects every loan not yet paid
OverdueLoans_NotPaid ==
    LET matching == {id \in 1..Len(loans) :
                        /\ IsoLeq(loans[id].due_date, isoformat(today))
                        /\ loans[id].status # "paid"}
    IN  SelectIds(matching, Len(loans))

\* ... WHERE due_date <= ? AND status='due', with today's ISO text
OverdueLoans ==
    LET matching == {id \in 1..Len(loans) :
                        /\ IsoLeq(loans[id].due_date, isoformat(today))
                        /\ loans[id].status = "due"}
    IN  SelectIds(matching, Len(loans))

\* a variant that selects every due loan due within the next three days
PreDueLoans_Within ==
    LET pre_due_date == isoformat(PlusDays(today, 3))
        matching == {id \in 1..Len(loans) :
                        /\ IsoLeq(loans[id].due_date, pre_due_date)
                        /\ loans[id].status = "due"}
    IN  SelectIds(matching, Len(loans))

\* ... WHERE due_date = ? AND status='due', with the ISO text of today + 3
PreDueLoans ==
    LET pre_due_date == isoformat(PlusDays(today, 3))
        matching == {id \in 1..Len(loans) :
                        /\ loans[id].due_date = pre_due_date
                        /\ loans[id].status = "due"}
    IN  SelectIds(matching, Len(loans))

\* a variant that leaves the loop after the first loan
CallEach_StopsAtFirst(logs, tw, last, ids, i, message_key, failAt) ==
    IF i > Len(ids)
    THEN [logs |-> logs, tw |-> tw, ret |-> last]
    ELSE PlaceCall(logs, tw, ids[i], message_key, i # failAt)

\* for i, loan in enumerate(target_loans): place_call(loan['id'], key);
\* the request the channel refuses is number failAt (0: none), and the
\* exception it raises ends the loop; `last` is what place_call returned last
RECURSIVE CallEach(_, _, _, _, _, _, _)
CallEach(logs, tw, last, ids, i, message_key, failAt) ==
    IF i > Len(ids)
    THEN [logs |-> logs, tw |-> tw, ret |-> last]
    ELSE LET r == PlaceCall(logs, tw, ids[i], message_key, i # failAt)
         IN  IF r.ret[1] = "raise"
             THEN r
             ELSE CallEach(r.logs, r.tw, r.ret, ids, i + 1, message_key, failAt)

\* what the page shows for a bulk button: the warning when nothing was
\* selected, the success message with the number of loans when the loop
\* ran to its end, nothing of its own when place_call raised
BulkReport(button, ids, r) ==
    IF ids = <<>> THEN <<button, "warning", 0>>
    ELSE IF r.ret[1] = "raise" THEN <<button, "raise", r.ret[2]>>
    ELSE <<button, "success", Len(ids)>>

\* a bulk button: the selection, the loop, the message
BulkCall(button, ids, message_key, failAt, maxLog, maxTw) ==
    LET r == CallEach(call_logs, tw_calls, <<>>, ids, 1, message_key, failAt)
    IN  /\ failAt \in 0..Len(ids)
        /\ failAt = 0 \/ USE_TWILIO
        /\ FitsIn(r, maxLog, maxTw)
        /\ call_logs' = r.logs
        /\ tw_calls' = r.tw
        /\ ret' = BulkReport(button, ids, r)
        /\ UNCHANGED <<customers, loans, env, USE_TWILIO, today, pc>>

\* the "Call Pre-Due Customers" button
call_pre_due(failAt, maxLog, maxTw) ==
    BulkCall("call_pre_due", PreDueLoans, "pre_due_reminder", failAt, maxLog, maxTw)

\* the "Call Overdue Customers" button
call_overdue(failAt, maxLog, maxTw) ==
    BulkCall("call_overdue", OverdueLoans, "reminder", failAt, maxLog, maxTw)

-----------------------------------------------------------------------------
(* Creating rows: the create form and seed_demo.                           *)

\* the values the form is submitted with
FormNames == {"Rahul junkar"}
FormPhones == {"+919999888777"}
FormLanguages == {"en"}
FormAmounts == {4000}
\* due dates around the first day: before it, on it, three days after it
FormDueDates == {Today0 - 3, Today0, Today0 + 3}

\* a variant that stores the new loan as paid
create_form_Paid(cname, cphone, clang, emi_amt, due) ==
    /\ Len(loans) < MaxLoans
    /\ customers' = Append(customers,
                           [name |-> cname, phone |-> cphone, language |-> clang])
    /\ loans' = Append(loans, [customer_id |-> Len(customers) + 1,
                               emi_amount |-> emi_amt,
                               due_date |-> isoformat(due),
                               status |-> "paid"])
    /\ UNCHANGED <<call_logs, env, USE_TWILIO, tw_calls, today, ret, pc>>

\* INSERT INTO customers, then INSERT INTO loans for the new customer: the
\* status column takes its default, 'due'
create_form(cname, cphone, clang, emi_amt, due) ==
    /\ Len(loans) < MaxLoans
    /\ customers' = Append(customers,
                           [name |-> cname, phone |-> cphone, language |-> clang])
    /\ loans' = Append(loans, [customer_id |-> Len(customers) + 1,
                               emi_amount |-> emi_amt,
                               due_date |-> isoformat(due),
                               status |-> "due"])
    /\ UNCHANGED <<call_logs, env, USE_TWILIO, tw_calls, today, ret, pc>>

\* customers_to_seed
CustomersToSeed ==
    << [name |-> "Ramesh Kumar", phone |-> "+919876543210", language |-> "hi"],
       [name |-> "Sita Devi", phone |-> "+919123456789", language |-> "en"],
       [name |-> "Arjun Patil", phone |-> "+919888777666", language |-> "mr"],
       [name |-> "Priya Sharma", phone |-> "+919999888777", language |-> "pa"],
       [name |-> "Vikram Singh", phone |-> "+919111222333", language |-> "gu"],
       [name |-> "Ananya Reddy", phone |-> "+919222333444", language |-> "te"],
       [name |-> "Fatima Begum", phone |-> "+919333444555", language |-> "ur"],
       [name |-> "Carlos Garcia", phone |-> "+34612345678", language |-> "es"],
       [name |-> "Sophie Dubois", phone |-> "+33612345678", language |-> "fr"],
       [name |-> "Kenji Tanaka", phone |-> "+819012345678", language |-> "ja"],
       [name |-> "Maria Silva", phone |-> "+5511987654321", language |-> "pt"],
       [name |-> "John Smith", phone |-> "+447123456789", language |-> "en"] >>

\* the random draws of seed_demo the model takes: one amount of
\* randint(15, 80) * 100, and for each status some of its day offsets
SeedAmounts == {1500}
SeedPaidDaysBack == {15}
SeedRescheduledDaysAhead == {10}
SeedDueOffsets == {0}

\* one seeded loan: its status, amount and due date
SeedLoanChoices ==
    {[status |-> "paid", emi |-> a, due |-> isoformat(today - k)] :
        a \in SeedAmounts, k \in SeedPaidDaysBack}
    \cup {[status |-> "rescheduled", emi |-> a, due |-> isoformat(today + k)] :
        a \in SeedAmounts, k \in SeedRescheduledDaysAhead}
    \cup {[status |-> "due", emi |-> a, due |-> isoformat(today + k)] :
        a \in SeedAmounts, k \in SeedDueOffsets}

\* range(random.randint(1, 2)): one or two loans for a customer
SeedLoanSeqs ==
    {<<c>> : c \in SeedLoanChoices}
    \cup {<<c, d>> : c \in SeedLoanChoices, d \in SeedLoanChoices}

\* the loop over customers_to_seed: each customer row, then its loan rows
RECURSIVE SeedRows(_, _, _, _)
SeedRows(plan, i, custs, lns) ==
    IF i > SeedCustomers
    THEN [customers |-> custs, loans |-> lns]
    ELSE LET custs1 == Append(custs, CustomersToSeed[i])
             cid == Len(custs1)
             rows == [j \in 1..Len(plan[i]) |->
                        [customer_id |-> cid,
                         emi_amount |-> plan[i][j].emi,
                         due_date |-> plan[i][j].due,
                         status |-> plan[i][j].status]]
         IN  SeedRows(plan, i + 1, custs1, lns \o rows)

\* a variant that seeds without counting the customers first
seed_demo_NoCheck ==
    \E plan \in [1..SeedCustomers -> SeedLoanSeqs] :
        LET r == SeedRows(plan, 1, customers, loans)
        IN  /\ Len(r.loans) <= MaxLoans
            /\ customers' = r.customers
            /\ loans' = r.loans
            /\ ret' = Returned("seed_demo", <<"message", "seeded">>)
            /\ UNCHANGED <<call_logs, env, USE_TWILIO, tw_calls, today, pc>>

\* SELECT COUNT(*) FROM customers: nothing is inserted when there is one
seed_demo ==
    IF Len(customers) > 0
    THEN /\ ret' = Returned("seed_demo", <<"message", "already seeded">>)
         /\ UNCHANGED <<customers, loans, call_logs, env, USE_TWILIO, tw_calls, today, pc>>
    ELSE \E plan \in [1..SeedCustomers -> SeedLoanSeqs] :
            LET r == SeedRows(plan, 1, customers, loans)
            IN  /\ Len(r.loans) <= MaxLoans
                /\ customers' = r.customers
                /\ loans' = r.loans
                /\ ret' = Returned("seed_demo", <<"message", "seeded">>)
                /\ UNCHANGED <<call_logs, env, USE_TWILIO, tw_calls, today, pc>>

-----------------------------------------------------------------------------
(* The clock, and the specification.                                       *)

\* date.today() moves on to the next day
Tick ==
    /\ today < Today0 + MaxTicks
    /\ today' = today + 1
    /\ UNCHANGED <<customers, loans, call_logs, env, USE_TWILIO, tw_calls, ret, pc>>

\* os.getenv of a Twilio variable: None or "" when it is absent or empty
CredentialValues == {"", "set"}

\* the environments a process can be started in
Environments ==
    [TWILIO_ACCOUNT_SID : CredentialValues, TWILIO_AUTH_TOKEN : CredentialValues,
     TWILIO_PHONE_NUMBER : CredentialValues, Client : BOOLEAN]

\* a variant that goes live as soon as one credential is set
UseTwilio_AnyCredential(e) ==
    /\ \/ e.TWILIO_ACCOUNT_SID # ""
       \/ e.TWILIO_AUTH_TOKEN # ""
       \/ e.TWILIO_PHONE_NUMBER # ""
    /\ e.Client

\* USE_TWILIO = bool(TWILIO_SID and TWILIO_AUTH and TWILIO_NUMBER and
\*                   Client is not None)
UseTwilio(e) ==
    /\ e.TWILIO_ACCOUNT_SID # ""
    /\ e.TWILIO_AUTH_TOKEN # ""
    /\ e.TWILIO_PHONE_NUMBER # ""
    /\ e.Client

\* the two environments of a deployment: fully configured, and not at all
StartEnvironments ==
    {e \in Environments :
        \/ UseTwilio(e)
        \/ /\ e.TWILIO_ACCOUNT_SID = "" /\ e.TWILIO_AUTH_TOKEN = ""
           /\ e.TWILIO_PHONE_NUMBER = "" /\ ~e.Client}

\* the extensions reschedule_loan is called with (7 is the default)
ExtensionDays == {7, 14}

Init ==
    /\ customers = <<>>
    /\ loans = <<>>
    /\ call_logs = <<>>
    /\ env \in StartEnvironments
    /\ USE_TWILIO = UseTwilio(env)
    /\ tw_calls = <<>>
    /\ today = Today0
    /\ ret = Returned("", Nothing)
    /\ pc = [s \in Sessions |-> Idle]

\* the "Place Voice Call" button: place_call(sel_loan_id), the default key
PlaceCallStep ==
    \E id \in LoanIds, ok \in BOOLEAN : place_call(id, "reminder", ok)

SendPaymentLinkStep ==
    \E id \in LoanIds, ok \in BOOLEAN : send_payment_link(id, ok)

MarkPaidStep == \E id \in LoanIds : mark_paid(id)

RescheduleStep ==
    \E id \in LoanIds, d \in ExtensionDays : reschedule_loan(id, d)

CallPreDueStep == \E f \in 0..MaxLoans : call_pre_due(f, MaxLog, MaxTw)

CallOverdueStep == \E f \in 0..MaxLoans : call_overdue(f, MaxLog, MaxTw)

CreateStep ==
    \E n \in FormNames, p \in FormPhones, l \in FormLanguages,
       a \in FormAmounts, due \in FormDueDates :
        create_form(n, p, l, a, due)

SeedStep == seed_demo

Next ==
    \/ PlaceCallStep
    \/ SendPaymentLinkStep
    \/ MarkPaidStep
    \/ RescheduleStep
    \/ CallPreDueStep
    \/ CallOverdueStep
    \/ CreateStep
    \/ SeedStep
    \/ Tick

Spec == Init /\ [][Next]_vars

-----------------------------------------------------------------------------
(* The bulk buttons followed through whole batches: the same handlers, the *)
(* form submitted with every due date around the first day, and room in    *)
(* call_logs for the two rows of each of two loans.                        *)

\* due dates from three days before the first day to four days after it
FormDueDatesWide == Today0 - 3 .. Today0 + 4

CreateWideStep ==
    \E n \in FormNames, p \in FormPhones, l \in FormLanguages,
       a \in FormAmounts, due \in FormDueDatesWide :
        create_form(n, p, l, a, due)

BatchPreDueStep ==
    \E f \in 0..MaxLoans : call_pre_due(f, BatchMaxLog, BatchMaxTw)

BatchOverdueStep ==
    \E f \in 0..MaxLoans : call_overdue(f, BatchMaxLog, BatchMaxTw)

NextBulk ==
    \/ CreateWideStep
    \/ MarkPaidStep
    \/ RescheduleStep
    \/ BatchPreDueStep
    \/ BatchOverdueStep
    \/ Tick

SpecBulk == Init /\ [][NextBulk]_vars

-----------------------------------------------------------------------------
(* Loans whose due date has passed: the form submitted with a due date     *)
(* seven or four days before the first day (st.date_input takes a past     *)
(* date), so that a loan rescheduled by seven days is due on the first day *)
(* or three days after it, where the two bulk queries look.                *)

FormDueDatesPast == {Today0 - 7, Today0 - 4}

CreatePastStep ==
    \E n \in FormNames, p \in FormPhones, l \in FormLanguages,
       a \in FormAmounts, due \in FormDueDatesPast :
        create_form(n, p, l, a, due)

NextPast ==
    \/ CreatePastStep
    \/ RescheduleStep
    \/ BatchPreDueStep
    \/ BatchOverdueStep
    \/ Tick

SpecPast == Init /\ [][NextPast]_vars

-----------------------------------------------------------------------------
(* place_call over the language column and the message key: the database   *)
(* file holds one customer already, whose language column (free TEXT) is   *)
(* one of the codes LANG_MSGS has a table for or a code it has none for,   *)
(* and place_call is called with each key of the tables and with a key no  *)
(* table has.                                                              *)

\* the codes found in the language column
StoredLanguages == Languages \cup {"xx"}

\* the keys place_call is called with
MessageKeys == TemplateKeys \cup {"final_notice"}

InitMsg ==
    /\ \E l \in StoredLanguages :
          customers = <<[name |-> "Sita Devi", phone |-> "+919123456789",
                         language |-> l]>>
    /\ loans = <<[customer_id |-> 1, emi_amount |-> 4000,
                  due_date |-> isoformat(Today0), status |-> "due"]>>
    /\ call_logs = <<>>
    /\ env \in StartEnvironments
    /\ USE_TWILIO = UseTwilio(env)
    /\ tw_calls = <<>>
    /\ today = Today0
    /\ ret = Returned("", Nothing)
    /\ pc = [s \in Sessions |-> Idle]

PlaceCallKeyStep ==
    \E id \in LoanIds, key \in MessageKeys, ok \in BOOLEAN :
        place_call(id, key, ok)

NextMsg ==
    \/ PlaceCallKeyStep
    \/ CreateStep

SpecMsg == InitMsg /\ [][NextMsg]_vars

-----------------------------------------------------------------------------
(* mark_paid and reschedule_loan statement by statement.  execute() runs   *)
(* one statement and commits it, so each of the two handlers is two        *)
(* commits: the UPDATE of loans, then the INSERT into call_logs.  The      *)
(* process can stop between them; the database file keeps what was         *)
(* committed.  While a session is between the statements of a handler its  *)
(* pc holds the handler's name, the statement that comes next, the loan,   *)
(* the extension and the date computed from it, and the loans table and    *)
(* the length of call_logs as they were when the handler was entered.      *)

\* mark_paid, first statement: execute("UPDATE loans SET status = 'paid' ...")
MarkPaidUpdate(s, loan_id) ==
    /\ AllIdle
    /\ Len(call_logs) < MaxLog
    /\ loans' = IF LoanExists(loan_id)
                THEN [loans EXCEPT ![loan_id].status = "paid"]
                ELSE loans
    /\ pc' = [pc EXCEPT ![s] =
                [op |-> "mark_paid", next |-> "insert", loan_id |-> loan_id,
                 days_to_add |-> 0, new_due_date |-> <<>>,
                 loans0 |-> loans, log0 |-> Len(call_logs)]]
    /\ UNCHANGED <<customers, call_logs, env, USE_TWILIO, tw_calls, today, ret>>

\* mark_paid, second statement and return
MarkPaidInsert(s) ==
    /\ pc[s].op = "mark_paid"
    /\ call_logs' = Append(call_logs,
                           Event(pc[s].loan_id, "marked_paid", <<"Webhook/Manual">>))
    /\ ret' = Returned("mark_paid", Status("ok"))
    /\ pc' = [pc EXCEPT ![s] = Idle]
    /\ UNCHANGED <<customers, loans, env, USE_TWILIO, tw_calls, today>>

\* reschedule_loan up to its first execute(): the lookup, the new date, the
\* UPDATE of status and due_date
RescheduleUpdate(s, loan_id, days_to_add) ==
    /\ AllIdle
    /\ IF ~LoanExists(loan_id)
       THEN /\ ret' = Returned("reschedule_loan", NotFound)
            /\ UNCHANGED <<customers, loans, call_logs, env, USE_TWILIO, tw_calls,
                           today, pc>>
       ELSE LET new_due_date == NewDueDate(loans[loan_id].due_date, days_to_add)
            IN  /\ Len(call_logs) < MaxLog
                /\ fromisoformat(new_due_date) <= Today0 + MaxHorizon
                /\ loans' = [loans EXCEPT ![loan_id].status = "rescheduled",
                                          ![loan_id].due_date = new_due_date]
                /\ pc' = [pc EXCEPT ![s] =
                            [op |-> "reschedule_loan", next |-> "insert",
                             loan_id |-> loan_id, days_to_add |-> days_to_add,
                             new_due_date |-> new_due_date,
                             loans0 |-> loans, log0 |-> Len(call_logs)]]
                /\ UNCHANGED <<customers, call_logs, env, USE_TWILIO, tw_calls,
                               today, ret>>

\* reschedule_loan, second execute() and return
RescheduleInsert(s) ==
    /\ pc[s].op = "reschedule_loan"
    /\ pc[s].next = "insert"
    /\ call_logs' = Append(call_logs,
           Event(pc[s].loan_id, "rescheduled",
                 <<"New due date", pc[s].new_due_date>>))
    /\ ret' = Returned("reschedule_loan", Status("rescheduled"))
    /\ pc' = [pc EXCEPT ![s] = Idle]
    /\ UNCHANGED <<customers, loans, env, USE_TWILIO, tw_calls, today>>

\* the session that is inside a handler, where there is exactly one
Running == CHOOSE s \in Sessions : pc[s] # Idle

\* the process stops between two statements of a handler and is started
\* again: the tables are as committed, the handler is gone
Crash ==
    /\ ~AllIdle
    /\ pc' = [s \in Sessions |-> Idle]
    /\ ret' = <<pc[Running].op, "crash", "">>
    /\ UNCHANGED <<customers, loans, call_logs, env, USE_TWILIO, tw_calls, today>>

MarkPaidUpdateStep == \E s \in Sessions, id \in LoanIds : MarkPaidUpdate(s, id)

MarkPaidInsertStep == \E s \in Sessions : MarkPaidInsert(s)

RescheduleUpdateStep ==
    \E s \in Sessions, id \in LoanIds, d \in ExtensionDays :
        RescheduleUpdate(s, id, d)

RescheduleInsertStep == \E s \in Sessions : RescheduleInsert(s)

CreateIdleStep == AllIdle /\ CreateStep

NextCrash ==
    \/ CreateIdleStep
    \/ MarkPaidUpdateStep
    \/ MarkPaidInsertStep
    \/ RescheduleUpdateStep
    \/ RescheduleInsertStep
    \/ Crash

SpecCrash == Init /\ [][NextCrash]_vars

-----------------------------------------------------------------------------
(* reschedule_loan in two sessions at the same time.  Each session runs    *)
(* the page script in its own thread on the same database file; between    *)
(* the SELECT, the UPDATE and the INSERT of one reschedule_loan the other   *)
(* session's statements can run.  Each statement is atomic.                *)

\* the sessions that are inside a handler
InFlight == {t \in Sessions : pc[t] # Idle}

\* reschedule_loan up to the UPDATE: the SELECT of the due date and the new
\* date computed from it
RescheduleRead(s, loan_id, days_to_add) ==
    /\ pc[s] = Idle
    /\ IF ~LoanExists(loan_id)
       THEN /\ ret' = Returned("reschedule_loan", NotFound)
            /\ UNCHANGED <<customers, loans, call_logs, env, USE_TWILIO, tw_calls,
                           today, pc>>
       ELSE LET new_due_date == NewDueDate(loans[loan_id].due_date, days_to_add)
            IN  /\ Len(call_logs) + Cardinality(InFlight) < MaxLog
                /\ fromisoformat(new_due_date) <= Today0 + MaxHorizon
                /\ pc' = [pc EXCEPT ![s] =
                            [op |-> "reschedule_loan", next |-> "update",
                             loan_id |-> loan_id, days_to_add |-> days_to_add,
                             new_due_date |-> new_due_date,
                             loans0 |-> loans, log0 |-> Len(call_logs)]]
                /\ UNCHANGED <<customers, loans, call_logs, env, USE_TWILIO,
                               tw_calls, today, ret>>

\* reschedule_loan, first execute(): the UPDATE with the date computed
RescheduleWrite(s) ==
    /\ pc[s].op = "reschedule_loan"
    /\ pc[s].next = "update"
    /\ loans' = [loans EXCEPT ![pc[s].loan_id].status = "rescheduled",
                              ![pc[s].loan_id].due_date = pc[s].new_due_date]
    /\ pc' = [pc EXCEPT ![s].next = "insert"]
    /\ UNCHANGED <<customers, call_logs, env, USE_TWILIO, tw_calls, today, ret>>

RescheduleReadStep ==
    \E s \in Sessions, id \in LoanIds, d \in ExtensionDays :
        RescheduleRead(s, id, d)

RescheduleWriteStep == \E s \in Sessions : RescheduleWrite(s)

NextRace ==
    \/ CreateIdleStep
    \/ RescheduleReadStep
    \/ RescheduleWriteStep
    \/ RescheduleInsertStep

SpecRace == Init /\ [][NextRace]_vars

-----------------------------------------------------------------------------
(* The process started in every environment: each of the three Twilio      *)
(* variables set or not, the twilio package importable or not.  The        *)
(* database file holds one customer with one loan, and the operator        *)
(* presses "Place Voice Call" and "Send Payment Link (SMS)".               *)

InitEnv ==
    /\ customers = <<[name |-> "Sita Devi", phone |-> "+919123456789",
                      language |-> "en"]>>
    /\ loans = <<[customer_id |-> 1, emi_amount |-> 4000,
                  due_date |-> isoformat(Today0), status |-> "due"]>>
    /\ call_logs = <<>>
    /\ env \in Environments
    /\ USE_TWILIO = UseTwilio(env)
    /\ tw_calls = <<>>
    /\ today = Today0
    /\ ret = Returned("", Nothing)
    /\ pc = [s \in Sessions |-> Idle]

NextEnv ==
    \/ PlaceCallStep
    \/ SendPaymentLinkStep
    \/ CreateStep

SpecEnv == InitEnv /\ [][NextEnv]_vars

-----------------------------------------------------------------------------
(* The create form with what can be typed into it: the phone field is a    *)
(* text_input, so it can be submitted empty; the amount is a number_input  *)
(* with min_value=100, which holds no smaller number.                      *)

\* st.text_input("Phone (+91...)"): the default, or cleared
TypedPhones == FormPhones \cup {""}

\* st.number_input(min_value=100, value=4000, step=100)
TypedAmounts == {100, 4000}

CreateTypedStep ==
    \E n \in FormNames, p \in TypedPhones, l \in FormLanguages,
       a \in TypedAmounts, due \in FormDueDates :
        create_form(n, p, l, a, due)

NextForm ==
    \/ CreateTypedStep
    \/ SendPaymentLinkStep

SpecForm == Init /\ [][NextForm]_vars

-----------------------------------------------------------------------------
(* The call effectiveness metrics of the dashboard, a function of the      *)
(* call_logs table.  The page is opened on a database file that earlier    *)
(* runs have written: two loans from the form, and in call_logs the        *)
(* call_initiated rows of reminders (the live channel raised after each,   *)
(* so no outcome row follows) and the marked_paid rows of payments, with   *)
(* the timestamps of the days they were inserted on.                       *)

MetricsMaxRows == 3    \* rows of call_logs the page is opened on
MetricsDays == 3       \* days the file has been in use

\* timedelta(hours=48)
ConversionWindow == 48

SecondsPerHour == 3600
SecondsPerMinute == 60

\* SELECT loan_id, ts FROM call_logs WHERE event = ?  (row ids)
RowsOf(logs, event) == {i \in 1..Len(logs) : logs[i].event = event}

\* groupby('loan_id'): the loans that have a row among rows
LoansIn(logs, rows) == {logs[i].loan_id : i \in rows}

\* groupby('loan_id')['ts'].idxmin(): for a loan, the first of its rows
\* that have its least timestamp
IdxMin(logs, rows, loan_id) ==
    LET mine == {i \in rows : logs[i].loan_id = loan_id}
        least == {i \in mine : \A j \in mine : logs[i].ts <= logs[j].ts}
    IN  CHOOSE i \in least : \A j \in least : i <= j

\* merged_logs['time_to_pay'] of a loan in both frames, in hours
TimeToPay(logs, loan_id) ==
    logs[IdxMin(logs, RowsOf(logs, "marked_paid"), loan_id)].ts
        - logs[IdxMin(logs, RowsOf(logs, "call_initiated"), loan_id)].ts

\* pd.merge(first_calls, first_payments, on='loan_id'): the loans in both
MergedLoans(logs) ==
    LoansIn(logs, RowsOf(logs, "call_initiated"))
        \cap LoansIn(logs, RowsOf(logs, "marked_paid"))

\* merged_logs[merged_logs['time_to_pay'] <= timedelta(hours=48)]
SuccessfulConversions(logs) ==
    {l \in MergedLoans(logs) : TimeToPay(logs, l) <= ConversionWindow}

RECURSIVE SumTimeToPay(_, _)
SumTimeToPay(logs, ls) ==
    IF ls = {} THEN 0
    ELSE LET l == CHOOSE x \in ls : TRUE
         IN  TimeToPay(logs, l) + SumTimeToPay(logs, ls \ {l})

\* f"{conversion_rate:.1f}": the rate in tenths of a percent, rounded
ConversionRate(logs) ==
    LET n == Cardinality(SuccessfulConversions(logs))
        d == Cardinality(LoansIn(logs, RowsOf(logs, "call_initiated")))
    IN  IF d = 0 THEN 0 ELSE (2 * 1000 * n + d) \div (2 * d)

\* successful_conversions['time_to_pay'].mean(), in seconds
AvgTimeToPay(logs) ==
    LET succ == SuccessfulConversions(logs)
    IN  IF succ = {} THEN 0
        ELSE (SumTimeToPay(logs, succ) * SecondsPerHour) \div Cardinality(succ)

\* divmod(avg_time_to_pay.total_seconds(), 3600), divmod(remainder, 60)
AvgTimeStr(seconds) ==
    <<seconds \div SecondsPerHour,
      (seconds % SecondsPerHour) \div SecondsPerMinute,
      (seconds % SecondsPerHour) % SecondsPerMinute>>

\* the two metrics, or st.info when either frame is empty
Metrics(logs) ==
    IF RowsOf(logs, "call_initiated") # {} /\ RowsOf(logs, "marked_paid") # {}
    THEN <<"metric", <<ConversionRate(logs), AvgTimeStr(AvgTimeToPay(logs))>>>>
    ELSE <<"info", "Insufficient log data for effectiveness analysis.">>

\* the dashboard tab renders the metrics
ViewMetrics ==
    /\ ret' = Returned("metrics", Metrics(call_logs))
    /\ UNCHANGED <<customers, loans, call_logs, env, USE_TWILIO, tw_calls,
                   today, pc>>

\* the rows earlier runs can have left: each a reminder or a payment of one
\* of the loans, inserted on one of the days
LoggedRows ==
    {[loan_id |-> l, event |-> "call_initiated",
      detail |-> <<"to", "+919999888777">>, ts |-> Timestamp(Today0 + d)] :
        l \in LoanIds, d \in 0..MetricsDays}
    \cup {[loan_id |-> l, event |-> "marked_paid",
           detail |-> <<"Webhook/Manual">>, ts |-> Timestamp(Today0 + d)] :
        l \in LoanIds, d \in 0..MetricsDays}

\* the tables with every number of rows, in the order they were inserted
StoredLogs ==
    {logs \in UNION {[1..n -> LoggedRows] : n \in 0..MetricsMaxRows} :
        \A i \in 1..Len(logs) - 1 : logs[i].ts <= logs[i + 1].ts}

InitMetrics ==
    /\ customers = [l \in LoanIds |->
                      [name |-> "Rahul junkar", phone |-> "+919999888777",
                       language |-> "en"]]
    /\ call_logs \in StoredLogs
    /\ loans = [l \in LoanIds |->
                  [customer_id |-> l, emi_amount |-> 4000,
                   due_date |-> isoformat(Today0),
                   status |-> IF l \in LoansIn(call_logs,
                                               RowsOf(call_logs, "marked_paid"))
                              THEN "paid" ELSE "due"]]
    /\ env \in {e \in Environments : UseTwilio(e)}
    /\ USE_TWILIO = UseTwilio(env)
    /\ tw_calls = <<>>
    /\ today = Today0 + MetricsDays
    /\ ret = Returned("", Nothing)
    /\ pc = [s \in Sessions |-> Idle]

NextMetrics == ViewMetrics

SpecMetrics == InitMetrics /\ [][NextMetrics]_vars

-----------------------------------------------------------------------------
(* Properties of the loan lifecycle and of the dispatch handlers.          *)

\* the rows of call_logs a step adds
NewRows == Len(call_logs) + 1 .. Len(call_logs')

\* a step of one of the dispatch handlers, single or bulk
DispatchStep ==
    PlaceCallStep \/ SendPaymentLinkStep \/ CallPreDueStep \/ CallOverdueStep

\* a step that shows a dispatch by what it leaves: a request to the live
\* channel, or a row of one of the dispatch events
DispatchEffect ==
    \/ tw_calls' # tw_calls
    \/ \E i \in NewRows :
          call_logs'[i].event \in
              {"call_initiated", "twilio_call", "mock_call", "payment_link_sent"}

\* C1: `paid` is terminal: in every step, a loan whose status is paid
\* before the step has status paid after it.
C1_PaidIsTerminal ==
    [][\A id \in 1..Len(loans) :
          loans[id].status = "paid" => loans'[id].status = "paid"]_vars

\* C2: place_call and send_payment_link, single or in the bulk loops, leave
\* every loan's status, due date and amount as they were, whether the
\* channel takes the request or raises.
C2_DispatchKeepsLoans ==
    [][(DispatchStep \/ DispatchEffect) =>
          /\ Len(loans') = Len(loans)
          /\ \A id \in 1..Len(loans) :
                /\ loans'[id].status = loans[id].status
                /\ loans'[id].due_date = loans[id].due_date
                /\ loans'[id].emi_amount = loans[id].emi_amount]_vars

\* C2 witness: both dispatch handlers have run on a stored loan, the second
\* one with the channel raising, and the loan is still due.
C2_Witness ==
    /\ USE_TWILIO
    /\ ret = <<"send_payment_link", "raise", "TwilioException">>
    /\ \E i \in 1..Len(call_logs) :
          /\ call_logs[i].event = "call_initiated"
          /\ LoanExists(call_logs[i].loan_id)
          /\ loans[call_logs[i].loan_id].status = "due"

\* C3: a step that changes the due date of a loan is a reschedule_loan of
\* that loan, and the loan's status after it is rescheduled.
C3_DueDateOnlyByReschedule ==
    [][\A id \in 1..Len(loans) :
          loans'[id].due_date # loans[id].due_date =>
              /\ \E d \in ExtensionDays : reschedule_loan(id, d)
              /\ loans'[id].status = "rescheduled"]_vars

\* C3 witness: a loan marked paid and then rescheduled: its due date is the
\* one the rescheduled row records.
C3_Witness ==
    /\ Len(call_logs) = 2
    /\ call_logs[1].event = "marked_paid"
    /\ call_logs[2].event = "rescheduled"
    /\ call_logs[1].loan_id = call_logs[2].loan_id
    /\ LoanExists(call_logs[2].loan_id)
    /\ loans[call_logs[2].loan_id].due_date = call_logs[2].detail[2]

\* C4: mark_paid on a stored loan, whatever its status, returns ok, leaves
\* the loan paid with its other columns and every other loan as they were,
\* and adds exactly one marked_paid row; on a loan that is paid already the
\* loans table does not change at all.
C4_MarkPaidIdempotent ==
    [][\A id \in LoanIds :
          (mark_paid(id) /\ LoanExists(id)) =>
              /\ ret' = <<"mark_paid", "status", "ok">>
              /\ Len(loans') = Len(loans)
              /\ loans'[id].status = "paid"
              /\ loans'[id].due_date = loans[id].due_date
              /\ loans'[id].emi_amount = loans[id].emi_amount
              /\ loans'[id].customer_id = loans[id].customer_id
              /\ \A other \in 1..Len(loans) :
                    other # id => loans'[other] = loans[other]
              /\ (loans[id].status = "paid" => loans' = loans)
              /\ Len(call_logs') = Len(call_logs) + 1
              /\ SubSeq(call_logs', 1, Len(call_logs)) = call_logs
              /\ call_logs'[Len(call_logs')].event = "marked_paid"
              /\ call_logs'[Len(call_logs')].loan_id = id]_vars

\* C4 witness: mark_paid ran twice on the same stored loan: two marked_paid
\* rows, the loan paid.
C4_Witness ==
    /\ Len(call_logs) = 2
    /\ call_logs[1].event = "marked_paid"
    /\ call_logs[2].event = "marked_paid"
    /\ call_logs[1].loan_id = call_logs[2].loan_id
    /\ LoanExists(call_logs[1].loan_id)
    /\ loans[call_logs[1].loan_id].status = "paid"
    /\ ret = <<"mark_paid", "status", "ok">>

\* the rescheduled rows of a loan follow each other by one extension, and
\* the last one records the loan's due date
RescheduleChain ==
    \A j \in 1..Len(call_logs) :
        (call_logs[j].event = "rescheduled" /\ LoanExists(call_logs[j].loan_id)) =>
            LET id == call_logs[j].loan_id
                later == {k \in j + 1..Len(call_logs) :
                            /\ call_logs[k].event = "rescheduled"
                            /\ call_logs[k].loan_id = id}
            IN  IF later = {}
                THEN loans[id].due_date = call_logs[j].detail[2]
                ELSE LET k == CHOOSE m \in later : \A n \in later : m <= n
                     IN  fromisoformat(call_logs[k].detail[2])
                           - fromisoformat(call_logs[j].detail[2]) \in ExtensionDays

\* C5: reschedule_loan(id, d) on a stored loan sets the due date to the
\* calendar date d days after the current one, sets the status to
\* rescheduled and adds exactly one rescheduled row recording the new date;
\* so successive reschedules add up (2025-01-01, 2025-01-08, 2025-01-15).
C5_RescheduleAddsDays ==
    /\ [][\A id \in LoanIds, d \in ExtensionDays :
            (reschedule_loan(id, d) /\ LoanExists(id)) =>
                /\ fromisoformat(loans'[id].due_date)
                      = fromisoformat(loans[id].due_date) + d
                /\ loans'[id].due_date[2] \in 1..12
                /\ loans'[id].due_date[3] \in
                      1..DaysInMonth(loans'[id].due_date[1], loans'[id].due_date[2])
                /\ loans'[id].status = "rescheduled"
                /\ loans'[id].emi_amount = loans[id].emi_amount
                /\ call_logs' = Append(call_logs,
                      Event(id, "rescheduled",
                            <<"New due date", loans'[id].due_date>>))]_vars
    /\ []RescheduleChain

\* C5 witness: a loan due 2025-01-01 rescheduled twice by 7 days.
C5_Witness ==
    \E id \in 1..Len(loans) :
        /\ loans[id].due_date = <<2025, 1, 15>>
        /\ loans[id].status = "rescheduled"
        /\ Len(call_logs) = 2
        /\ call_logs[1] = Event(id, "rescheduled", <<"New due date", <<2025, 1, 8>>>>)
        /\ call_logs[2] = Event(id, "rescheduled", <<"New due date", <<2025, 1, 15>>>>)

\* C6: place_call and send_payment_link on a loan id that is not stored
\* return the not-found error and change nothing: no row is added, the
\* channel is not asked, no loan and no customer changes.
C6_DispatchNotFound ==
    [][\A id \in LoanIds :
          (/\ ~LoanFound(id)
           /\ \E ok \in BOOLEAN :
                 place_call(id, "reminder", ok) \/ send_payment_link(id, ok)) =>
              /\ ret' \in {<<"place_call", "error", "Loan not found">>,
                          <<"send_payment_link", "error", "Loan not found">>}
              /\ call_logs' = call_logs
              /\ tw_calls' = tw_calls
              /\ loans' = loans
              /\ customers' = customers]_vars

\* C6 witness: place_call returned not-found in a store that holds a loan
\* and a row of the log.
C6_Witness ==
    /\ ret = <<"place_call", "error", "Loan not found">>
    /\ Len(loans) = 1
    /\ Len(call_logs) = 1

\* C7: reschedule_loan on a loan id that is not stored returns the
\* not-found error and leaves the store as it was: no loan changes and no
\* row is added.
C7_RescheduleNotFound ==
    [][\A id \in LoanIds, d \in ExtensionDays :
          (reschedule_loan(id, d) /\ ~LoanExists(id)) =>
              /\ ret' = <<"reschedule_loan", "error", "Loan not found">>
              /\ call_logs' = call_logs
              /\ loans' = loans
              /\ customers' = customers
              /\ tw_calls' = tw_calls]_vars

\* C7 witness: reschedule_loan returned not-found in a store that holds a
\* loan and a row of the log.
C7_Witness ==
    /\ ret = <<"reschedule_loan", "error", "Loan not found">>
    /\ Len(loans) = 1
    /\ Len(call_logs) = 1
    /\ loans[1].status = "due"

\* C8: every row of call_logs refers to a stored loan.
C8_EventsReferToLoans ==
    \A i \in 1..Len(call_logs) : LoanExists(call_logs[i].loan_id)

\* C9: every place_call on a stored loan adds exactly two rows for that
\* loan: call_initiated, then the outcome row twilio_call or mock_call.
C9_CallInitiatedThenOutcome ==
    [][\A id \in LoanIds :
          (/\ LoanFound(id)
           /\ \E ok \in BOOLEAN : place_call(id, "reminder", ok)) =>
              /\ Len(call_logs') = Len(call_logs) + 2
              /\ call_logs'[Len(call_logs) + 1].event = "call_initiated"
              /\ call_logs'[Len(call_logs) + 1].loan_id = id
              /\ call_logs'[Len(call_logs) + 2].event \in {"twilio_call", "mock_call"}
              /\ call_logs'[Len(call_logs) + 2].loan_id = id]_vars

\* the events the handlers write when nothing failed
RegularEvents ==
    {"call_initiated", "twilio_call", "mock_call", "payment_link_sent",
     "marked_paid", "rescheduled"}

\* C10: when the live channel raises during place_call or
\* send_payment_link, the step adds a row for that loan that marks the
\* failed dispatch.
C10_ChannelFailureRecorded ==
    [][\A id \in LoanIds :
          (/\ LoanFound(id)
           /\ place_call(id, "reminder", FALSE) \/ send_payment_link(id, FALSE)) =>
              \E i \in NewRows :
                  /\ call_logs'[i].loan_id = id
                  /\ call_logs'[i].event \notin RegularEvents]_vars

\* the functions that call the voice channel: place_call and the two bulk
\* buttons that loop over it
VoiceCallers == {"place_call", "call_overdue", "call_pre_due"}

\* C11: the call_initiated row written before the voice channel is asked
\* stays in the log when the channel raises: every request made to the
\* channel, accepted or refused, has its call_initiated row at the place
\* where it was written, and right after a refused request that row is the
\* last row of the log.
C11_CallInitiatedStays ==
    /\ \A k \in 1..Len(tw_calls) :
          tw_calls[k].api = "calls.create" =>
              /\ tw_calls[k].at \in 1..Len(call_logs)
              /\ call_logs[tw_calls[k].at].event = "call_initiated"
              /\ call_logs[tw_calls[k].at].detail = <<"to", tw_calls[k].to>>
    /\ (ret[1] \in VoiceCallers /\ ret[2] = "raise" /\ ret[3] = "TwilioException") =>
          /\ Len(call_logs) > 0
          /\ call_logs[Len(call_logs)].event = "call_initiated"
          /\ Len(tw_calls) > 0
          /\ tw_calls[Len(tw_calls)].at = Len(call_logs)

\* C11 witness: the channel refused a call placed after an earlier row was
\* written: the log ends with the call_initiated row of the refused call.
C11_Witness ==
    /\ USE_TWILIO
    /\ ret = <<"place_call", "raise", "TwilioException">>
    /\ Len(call_logs) = 2
    /\ call_logs[2].event = "call_initiated"
    /\ tw_calls[Len(tw_calls)].at = 2

\* the call_initiated rows a step adds for one loan
NewCallsOf(id) ==
    {i \in NewRows :
        call_logs'[i].event = "call_initiated" /\ call_logs'[i].loan_id = id}

\* a step of one of the two bulk buttons, with the loans it selected
BatchStepOver(ids) ==
    \/ /\ ids = OverdueLoans
       /\ \E f \in 0..MaxLoans : call_overdue(f, BatchMaxLog, BatchMaxTw)
    \/ /\ ids = PreDueLoans
       /\ \E f \in 0..MaxLoans : call_pre_due(f, BatchMaxLog, BatchMaxTw)

\* C12: a bulk button whose channel refuses one loan's call goes on: every
\* selected loan is called exactly once in the step, and the step ends
\* with the button's report, not with the exception.
C12_BulkIsolatesFailures ==
    [][\A ids \in {OverdueLoans, PreDueLoans} :
          BatchStepOver(ids) =>
              /\ \A k \in 1..Len(ids) : Cardinality(NewCallsOf(ids[k])) = 1
              /\ ret'[2] # "raise"]_vars

\* the loans the overdue button is for: status due, due on or before today
OverdueEligible ==
    {id \in 1..Len(loans) :
        loans[id].status = "due" /\ fromisoformat(loans[id].due_date) <= today}

\* the rows of one event a step adds for one loan
NewRowsOf(id, event) ==
    {i \in NewRows :
        call_logs'[i].event = event /\ call_logs'[i].loan_id = id}

\* C13: with the mock channel, the overdue button over a store with n
\* eligible loans adds exactly one call_initiated and one mock_call row for
\* each of them and no other row, leaves the loans table as it was (the
\* eligible loans still due), asks no live channel, and shows that all n
\* were called (with n = 0, the warning that there is none to call).
C13_MockBulkOverdue ==
    [][\A f \in 0..MaxLoans :
          (~USE_TWILIO /\ call_overdue(f, BatchMaxLog, BatchMaxTw)) =>
              LET n == Cardinality(OverdueEligible)
              IN  /\ Len(call_logs') = Len(call_logs) + 2 * n
                  /\ SubSeq(call_logs', 1, Len(call_logs)) = call_logs
                  /\ \A id \in OverdueEligible :
                        /\ Cardinality(NewRowsOf(id, "call_initiated")) = 1
                        /\ Cardinality(NewRowsOf(id, "mock_call")) = 1
                  /\ \A i \in NewRows : call_logs'[i].loan_id \in OverdueEligible
                  /\ loans' = loans
                  /\ \A id \in OverdueEligible : loans'[id].status = "due"
                  /\ tw_calls' = tw_calls
                  /\ ret' = IF n = 0 THEN <<"call_overdue", "warning", 0>>
                            ELSE <<"call_overdue", "success", n>>]_vars

\* C13 witness: the overdue button with the mock channel over two eligible
\* loans: four rows, a pair for each loan, both loans still due.
C13_Witness ==
    /\ ~USE_TWILIO
    /\ ret = <<"call_overdue", "success", 2>>
    /\ Len(call_logs) = 4
    /\ call_logs[1].event = "call_initiated" /\ call_logs[1].loan_id = 1
    /\ call_logs[2].event = "mock_call" /\ call_logs[2].loan_id = 1
    /\ call_logs[3].event = "call_initiated" /\ call_logs[3].loan_id = 2
    /\ call_logs[4].event = "mock_call" /\ call_logs[4].loan_id = 2
    /\ Len(loans) = 2
    /\ loans[1].status = "due" /\ loans[2].status = "due"

\* the ids a selection returned, as a set
Selected(ids) == {ids[k] : k \in 1..Len(ids)}

\* C14: the overdue selection returns exactly the loans whose status is due
\* and whose due date is on or before today, the loans due today included,
\* each of them once; no paid or rescheduled loan and no loan due after
\* today is in it.
C14_SelectOverdue ==
    /\ Selected(OverdueLoans) = OverdueEligible
    /\ Len(OverdueLoans) = Cardinality(OverdueEligible)
    /\ \A id \in Selected(OverdueLoans) :
          /\ loans[id].status \notin {"paid", "rescheduled"}
          /\ fromisoformat(loans[id].due_date) <= today

\* C14 witness: a loan due today is selected, and a loan that is not due
\* any more, with a due date before today, is not.
C14_Witness ==
    /\ \E id \in Selected(OverdueLoans) : fromisoformat(loans[id].due_date) = today
    /\ \E id \in 1..Len(loans) :
          /\ id \notin Selected(OverdueLoans)
          /\ loans[id].status \in {"paid", "rescheduled"}
          /\ fromisoformat(loans[id].due_date) < today

PreDueEligible ==
    {id \in 1..Len(loans) :
        loans[id].status = "due" /\ fromisoformat(loans[id].due_date) = today + 3}

\* C16: the pre-due selection returns exactly the loans with status due
\* whose due date is today + 3, each once: a loan due in 1, 2 or 4 days or
\* on or before today is not selected, nor is a paid or rescheduled loan,
\* whatever its due date.
C16_SelectPreDue ==
    /\ Selected(PreDueLoans) = PreDueEligible
    /\ Len(PreDueLoans) = Cardinality(PreDueEligible)
    /\ \A id \in 1..Len(loans) :
          LET ahead == fromisoformat(loans[id].due_date) - today
          IN  (ahead \in {1, 2, 4} \/ ahead <= 0
                  \/ loans[id].status \in {"paid", "rescheduled"}) =>
                  id \notin Selected(PreDueLoans)

\* C16 witness: of two loans due in exactly 3 days the one still due is
\* selected, the one paid or rescheduled is not.
C16_Witness ==
    /\ PreDueLoans # <<>>
    /\ \E id \in 1..Len(loans) :
          /\ id \notin Selected(PreDueLoans)
          /\ loans[id].status \in {"paid", "rescheduled"}
          /\ fromisoformat(loans[id].due_date) = today + 3

\* the customer row of a stored loan
CustomerOf(id) == customers[loans[id].customer_id]

\* C17: place_call with a key of the tables, for a customer whose language
\* has no table, does not fail on the lookup and renders the English
\* template of that key with the customer's name and the amount in the
\* placeholders the template has; for a customer whose language has a
\* table it renders that table's template.
C17_TemplateFallback ==
    [][\A id \in LoanIds, key \in TemplateKeys, ok \in BOOLEAN :
          (LoanFound(id) /\ place_call(id, key, ok)) =>
              LET lang == CustomerOf(id).language
                  used == IF lang \in Languages THEN lang ELSE "en"
                  text == call_logs'[Len(call_logs')].detail
              IN  /\ ret'[2] = "raise" => ret'[3] # "KeyError"
                  /\ Len(call_logs') > Len(call_logs)
                  /\ ~USE_TWILIO =>
                        /\ ret' = <<"place_call", "status", "mock_call_logged">>
                        /\ call_logs'[Len(call_logs')].event = "mock_call"
                        /\ text[2] = used
                        /\ text[3] = key
                        /\ "name" \in Placeholders(key) => text[4] = CustomerOf(id).name
                        /\ "amount" \in Placeholders(key) =>
                              text[5] = loans[id].emi_amount]_vars

\* C17 witness: the reminder of a customer with language code xx was
\* rendered from the English table, with the name and the amount.
C17_Witness ==
    /\ ~USE_TWILIO
    /\ customers[1].language = "xx"
    /\ Len(call_logs) = 2
    /\ call_logs[2].event = "mock_call"
    /\ call_logs[2].detail[2] = "en"
    /\ call_logs[2].detail[3] = "reminder"
    /\ call_logs[2].detail[4] = customers[1].name
    /\ call_logs[2].detail[5] = loans[1].emi_amount

\* C18: place_call with a key that the table of the customer's language
\* does not have raises on the lookup: nothing is rendered, no row is
\* added to call_logs, the channel is not asked and no table changes.
C18_MissingKeyFails ==
    [][\A id \in LoanIds, key \in MessageKeys, ok \in BOOLEAN :
          (/\ LoanFound(id)
           /\ CustomerOf(id).language \in Languages
           /\ key \notin DOMAIN LANG_MSGS[CustomerOf(id).language]
           /\ place_call(id, key, ok)) =>
              /\ ret' = <<"place_call", "raise", "KeyError">>
              /\ call_logs' = call_logs
              /\ tw_calls' = tw_calls
              /\ loans' = loans
              /\ customers' = customers]_vars

\* C18 witness: place_call raised KeyError for a customer whose language
\* has a table, with the live channel configured; the log is empty and the
\* channel was not asked.
C18_Witness ==
    /\ ret = <<"place_call", "raise", "KeyError">>
    /\ USE_TWILIO
    /\ customers[1].language = "ta"
    /\ call_logs = <<>>
    /\ tw_calls = <<>>

\* C19: call_logs is append-only: in every step the log before the step is
\* a prefix of the log after it, so no row is changed, moved or removed;
\* the id of a row is its place in the table (AUTOINCREMENT), so the ids
\* are distinct and grow in the order the rows were added.
C19_LogAppendOnly ==
    [][/\ Len(call_logs') >= Len(call_logs)
       /\ SubSeq(call_logs', 1, Len(call_logs)) = call_logs
       /\ DOMAIN call_logs' = 1..Len(call_logs')]_vars

\* C19 witness: a log of two rows written by two different handlers, the
\* reschedule of a loan and then a payment link for it.
C19_Witness ==
    /\ Len(call_logs) = 2
    /\ call_logs[1].event = "rescheduled"
    /\ call_logs[2].event = "payment_link_sent"
    /\ call_logs[1].loan_id = call_logs[2].loan_id

\* the event a handler logs for the update it makes
EventOf(op) == IF op = "mark_paid" THEN "marked_paid" ELSE "rescheduled"

\* C20: mark_paid and reschedule_loan are atomic with respect to a crash:
\* when the process stops inside one of them, the tables it leaves show
\* the loan changed by the handler exactly when they show the handler's
\* event, so either nothing of the handler or all of it.
C20_CrashAtomic ==
    [][Crash =>
          LET h == pc[Running]
              updated == loans' # h.loans0
              logged == \E i \in h.log0 + 1 .. Len(call_logs') :
                            /\ call_logs'[i].loan_id = h.loan_id
                            /\ call_logs'[i].event = EventOf(h.op)
          IN  updated <=> logged]_vars

\* C21: reschedule_loan is atomic under interleaving: each reschedule, also
\* when another session's reschedule of the same loan runs between its
\* statements, extends the due date the loan has when it is written, so
\* that two of them add d1 + d2 and no extension is lost, and the row it
\* logs records the due date the loan then has.
C21_RescheduleSerializable ==
    [][\A s \in Sessions :
          /\ RescheduleWrite(s) =>
                fromisoformat(loans'[pc[s].loan_id].due_date)
                    = fromisoformat(loans[pc[s].loan_id].due_date) + pc[s].days_to_add
          /\ (RescheduleInsert(s) /\ pc[s].next = "insert") =>
                call_logs'[Len(call_logs')].detail[2] = loans[pc[s].loan_id].due_date]_vars

\* some credential of the environment is absent
CredentialAbsent ==
    \/ env.TWILIO_ACCOUNT_SID = ""
    \/ env.TWILIO_AUTH_TOKEN = ""
    \/ env.TWILIO_PHONE_NUMBER = ""

\* C22: when any of the three credentials is absent the live channel is
\* never invoked: no request reaches Twilio, no reminder ends in a
\* twilio_call event, every reminder outcome is mock_call, and every
\* payment_link_sent detail is the mock descriptor with the contact
C22_MockWhenCredentialAbsent ==
    CredentialAbsent =>
        /\ tw_calls = <<>>
        /\ \A i \in 1..Len(call_logs) :
              /\ call_logs[i].event \in {"call_initiated", "mock_call",
                                         "payment_link_sent"}
              /\ call_logs[i].event = "payment_link_sent" =>
                    /\ call_logs[i].detail[1] = "mock_sms_sent_to"
                    /\ call_logs[i].detail[2]
                          = LoanView(call_logs[i].loan_id).phone
        /\ ret[1] \in {"place_call", "send_payment_link"} => ret[2] # "raise"

\* C22 witness: with only the sender number missing and the package
\* present, a reminder was dispatched and its outcome logged as mock_call
C22_Witness ==
    /\ CredentialAbsent
    /\ env.Client
    /\ env.TWILIO_ACCOUNT_SID # "" /\ env.TWILIO_AUTH_TOKEN # ""
    /\ ret = Returned("place_call", Status("mock_call_logged"))
    /\ \E i \in 1..Len(call_logs) : call_logs[i].event = "mock_call"

\* the values of the status column
Statuses == {"due", "paid", "rescheduled"}

\* C23: after every step each loan's status is one of due, paid and
\* rescheduled, and a loan that is not due before a step is not due after it
C23_NeverBackToDue ==
    [][/\ \A id \in 1..Len(loans') : loans'[id].status \in Statuses
       /\ \A id \in 1..Len(loans) :
             loans[id].status # "due" => loans'[id].status # "due"]_vars

\* C23 witness: a loan rescheduled and then marked paid, and after that
\* another handler has run on it: it is paid
C23_Witness ==
    /\ Len(call_logs) = 2
    /\ call_logs[1].event = "rescheduled"
    /\ call_logs[2].event = "marked_paid"
    /\ call_logs[1].loan_id = call_logs[2].loan_id
    /\ LoanExists(call_logs[1].loan_id)
    /\ loans[call_logs[1].loan_id].status = "paid"
    /\ ret[1] = "call_overdue"

\* the loan rows a step inserts
NewLoans == Len(loans) + 1 .. Len(loans')

C25_CreationValidates ==
    /\ \A c \in 1..Len(customers) : customers[c].phone # ""
    /\ \A id \in 1..Len(loans) : loans[id].emi_amount > 0

\* the metrics are on the page
MetricsShown == ret[1] = "metrics" /\ ret[2] = "metric"

\* the loans whose first marked_paid row is within 48 hours of their first
\* call_initiated row, before it or after it
PaidWithinWindow ==
    {l \in MergedLoans(call_logs) :
        /\ TimeToPay(call_logs, l) <= ConversionWindow
        /\ TimeToPay(call_logs, l) >= 0 - ConversionWindow}

\* the loans with at least one call_initiated row
CalledLoans == LoansIn(call_logs, RowsOf(call_logs, "call_initiated"))

\* C26: the conversion rate shown is 100 * (loans whose first marked_paid
\* row is within 48 hours of their first call_initiated row) / (loans with
\* a call_initiated row), to one decimal, and lies between 0 and 100
C26_ConversionRate ==
    MetricsShown =>
        /\ ret[3][1] = (2 * 1000 * Cardinality(PaidWithinWindow)
                            + Cardinality(CalledLoans))
                        \div (2 * Cardinality(CalledLoans))
        /\ ret[3][1] >= 0
        /\ ret[3][1] <= 1000

\* C27: every loan counted as a conversion was paid at or after its first
\* call, and the average time to pay shown is not negative
C27_PaymentFollowsCall ==
    MetricsShown =>
        /\ \A l \in SuccessfulConversions(call_logs) :
              TimeToPay(call_logs, l) >= 0
        /\ ret[3][2][1] >= 0

\* the loan has a rescheduled row in the log
HasRescheduled(id) ==
    \E i \in 1..Len(call_logs) :
        call_logs[i].event = "rescheduled" /\ call_logs[i].loan_id = id

\* C28: a loan that has been rescheduled is in neither the overdue nor the
\* pre-due selection, whatever today is and whatever its new due date, and
\* no bulk step adds a row for it
C28_RescheduledNeverSelected ==
    /\ [](\A id \in 1..Len(loans) :
            HasRescheduled(id) =>
                /\ id \notin Selected(OverdueLoans)
                /\ id \notin Selected(PreDueLoans))
    /\ [][(BatchPreDueStep \/ BatchOverdueStep) =>
            \A i \in NewRows :
                ~HasRescheduled(call_logs'[i].loan_id)]_vars

\* C28 witness: the overdue button ran over two loans whose due dates are
\* not after today, one rescheduled to such a date and one due: only the
\* due one was called
C28_Witness ==
    /\ Len(loans) = 2
    /\ HasRescheduled(1)
    /\ fromisoformat(loans[1].due_date) <= today
    /\ loans[2].status = "due"
    /\ ret = <<"call_overdue", "success", 1>>
    /\ \E i \in 1..Len(call_logs) :
          call_logs[i].event = "call_initiated" /\ call_logs[i].loan_id = 2
    /\ \A i \in 1..Len(call_logs) :
          call_logs[i].event = "call_initiated" => call_logs[i].loan_id # 1

\* the log has a row of the event for the loan
HasEvent(id, event) ==
    \E i \in 1..Len(call_logs) :
        call_logs[i].event = event /\ call_logs[i].loan_id = id

\* status and audit trail agree for the loan
TrailAgrees(id) ==
    /\ loans[id].status = "paid" => HasEvent(id, "marked_paid")
    /\ loans[id].status = "rescheduled" => HasEvent(id, "rescheduled")

\* C29: every paid loan has a marked_paid row in the log and every
\* rescheduled loan a rescheduled row, seeded loans included
C29_TrailAgrees == \A id \in 1..Len(loans) : TrailAgrees(id)

\* C30: seed_demo on a store with a customer changes no table; on the empty
\* store it inserts the customers of customers_to_seed and, for each, loans
\* whose customer_id is the id of a customer row that exists
C30_SeedOnce ==
    [][SeedStep =>
          IF Len(customers) > 0
          THEN /\ customers' = customers
               /\ loans' = loans
               /\ call_logs' = call_logs
          ELSE /\ Len(customers') = SeedCustomers
               /\ \A c \in 1..SeedCustomers : customers'[c] = CustomersToSeed[c]
               /\ Len(loans') >= SeedCustomers
               /\ call_logs' = call_logs
               /\ \A id \in 1..Len(loans') :
                     loans'[id].customer_id \in 1..Len(customers')]_vars

\* C30 witness: seed_demo has run on the store it seeded before and answered
\* that there are customers already
C30_Witness ==
    /\ ret = Returned("seed_demo", <<"message", "already seeded">>)
    /\ Len(customers) = SeedCustomers
    /\ customers[1] = CustomersToSeed[1]
    /\ Len(loans) > 0

====
